---------------------------- MODULE Spec2Model ----------------------------
(***************************************************************************)
(* Model of the Shopify AI analytics service (python_service):             *)
(*   main.py                    POST /api/v1/analyze                       *)
(*   services/ai_agent.py       AIAgent: classify -> fetch -> explain      *)
(*   services/shopify_client.py ShopifyClient: live REST call or mock data *)
(*                                                                         *)
(* Python str values are TLA+ strings (TLC evaluates Len, SubSeq, Head,    *)
(* Tail and \o on them).  Python dicts are functions whose DOMAIN is the   *)
(* set of keys present.  JSON data (a list, an object or null) is a record *)
(* [kind, items, fields].  Money is kept in integer cents.                 *)
(***************************************************************************)
EXTENDS Integers, Sequences, FiniteSets, TLC

VARIABLES
    store_id,         \* QuestionRequest.store_id
    question,         \* QuestionRequest.question
    env,              \* process environment: variable name -> value
    pydantic,         \* major version of the installed pydantic (1 or 2)
    pc,               \* position of the request in its handler
    classifier_reply, \* outcome of the chat-completion call of the classifier
    query_result,     \* process_question: query_result
    shopify_reply,    \* outcome of the GET sent to the Shopify REST API
    data_result,      \* process_question: data_result
    explainer_reply,  \* outcome of the chat-completion call of the explainer
    explanation,      \* process_question: explanation
    result,           \* analyze_question: result (what process_question returned)
    response,         \* the HTTP response of analyze_question
    calls,            \* outbound calls made so far, in order
    shop,             \* _normalize_shop(store_id)
    shop_again,       \* _normalize_shop applied to shop
    fx_intent,        \* argument query_type of _fallback_explanation
    fx_data           \* argument data of _fallback_explanation

vars == <<store_id, question, env, pydantic, pc, classifier_reply, query_result,
          shopify_reply, data_result, explainer_reply, explanation, result,
          response, calls, shop, shop_again, fx_intent, fx_data>>

-----------------------------------------------------------------------------
(* Bounds of the model *)

\* number of fragments a store identifier is built from
MaxParts == 3
\* number of words a question is built from
MaxWords == 3
\* number of records in a list handed to the explanation fallback
MaxRecords == 2

-----------------------------------------------------------------------------
(* Python str operations *)

\* s.startswith(p)
StartsWith(s, p) == Len(s) >= Len(p) /\ SubSeq(s, 1, Len(p)) = p

\* s.endswith(p)
EndsWith(s, p) == Len(s) >= Len(p) /\ SubSeq(s, Len(s) - Len(p) + 1, Len(s)) = p

\* p in s
Contains(s, p) ==
    \E i \in 1..(Len(s) - Len(p) + 1) : SubSeq(s, i, i + Len(p) - 1) = p

\* s.find(p) + 1, and 0 when p does not occur in s
FindFirst(s, p) ==
    IF Contains(s, p)
    THEN CHOOSE i \in 1..(Len(s) - Len(p) + 1) :
            /\ SubSeq(s, i, i + Len(p) - 1) = p
            /\ \A j \in 1..(i - 1) : SubSeq(s, j, j + Len(p) - 1) # p
    ELSE 0

\* s.replace(old, new): every non-overlapping occurrence, scanning left to right
RECURSIVE Replace(_, _, _)
Replace(s, old, new) ==
    IF Len(s) < Len(old) THEN s
    ELSE IF SubSeq(s, 1, Len(old)) = old
         THEN new \o Replace(SubSeq(s, Len(old) + 1, Len(s)), old, new)
         ELSE SubSeq(s, 1, 1) \o Replace(Tail(s), old, new)

\* s.split(sep)[0]
SplitFirst(s, sep) ==
    IF Contains(s, sep) THEN SubSeq(s, 1, FindFirst(s, sep) - 1) ELSE s

\* s.split(sep)[1], defined when sep occurs in s
SplitSecond(s, sep) ==
    SplitFirst(SubSeq(s, FindFirst(s, sep) + Len(sep), Len(s)), sep)

UpperLetters == "ABCDEFGHIJKLMNOPQRSTUVWXYZ"
LowerLetters == "abcdefghijklmnopqrstuvwxyz"

UpperSet == {SubSeq(UpperLetters, i, i) : i \in 1..26}
LowerSet == {SubSeq(LowerLetters, i, i) : i \in 1..26}

ToLower ==
    [c \in UpperSet |->
        LET i == CHOOSE k \in 1..26 : SubSeq(UpperLetters, k, k) = c
        IN  SubSeq(LowerLetters, i, i)]

ToUpper ==
    [c \in LowerSet |->
        LET i == CHOOSE k \in 1..26 : SubSeq(LowerLetters, k, k) = c
        IN  SubSeq(UpperLetters, i, i)]

\* c.lower() for a one-character string
LowerChar(c) == IF c \in UpperSet THEN ToLower[c] ELSE c

\* c.upper() for a one-character string
UpperChar(c) == IF c \in LowerSet THEN ToUpper[c] ELSE c

\* s.lower()
RECURSIVE Lower(_)
Lower(s) == IF s = "" THEN "" ELSE LowerChar(SubSeq(s, 1, 1)) \o Lower(Tail(s))

\* s.upper()
RECURSIVE Upper(_)
Upper(s) == IF s = "" THEN "" ELSE UpperChar(SubSeq(s, 1, 1)) \o Upper(Tail(s))

\* s.strip() for the blank character
RECURSIVE Strip(_)
Strip(s) ==
    IF s = "" THEN ""
    ELSE IF SubSeq(s, 1, 1) = " " THEN Strip(Tail(s))
    ELSE IF SubSeq(s, Len(s), Len(s)) = " " THEN Strip(SubSeq(s, 1, Len(s) - 1))
    ELSE s

Digits == "0123456789"

\* whether int(s) succeeds: a non-empty run of decimal digits
IsInt(s) == s # "" /\ \A i \in 1..Len(s) : Contains(Digits, SubSeq(s, i, i))

\* int(s) for a run of decimal digits
RECURSIVE ToInt(_)
ToInt(s) ==
    IF s = "" THEN 0
    ELSE 10 * ToInt(SubSeq(s, 1, Len(s) - 1))
         + (FindFirst(Digits, SubSeq(s, Len(s), Len(s))) - 1)

\* the concatenation of a sequence of strings, sep between neighbours
RECURSIVE Join(_, _)
Join(ws, sep) ==
    IF Len(ws) = 0 THEN ""
    ELSE IF Len(ws) = 1 THEN ws[1]
    ELSE ws[1] \o sep \o Join(Tail(ws), sep)

\* all sequences over S of length at most n
SeqsUpTo(S, n) == UNION {[1..k -> S] : k \in 0..n}

-----------------------------------------------------------------------------
(* ShopifyClient._normalize_shop *)

Suffix == ".myshopify.com"

_normalize_shop(sid) ==
    LET stripped == Replace(Replace(sid, "https://", ""), "http://", "")
    IN  IF ~EndsWith(stripped, Suffix)
        THEN (IF Contains(stripped, ".") THEN SplitFirst(stripped, ".") ELSE stripped)
             \o Suffix
        ELSE stripped

\* store identifiers: up to MaxParts fragments written one after the other
StoreFragments ==
    {"https://", "http://", "ht", "tp://", "my-shop", ".", "com", Suffix}

StoreIds == {Join(fs, "") : fs \in SeqsUpTo(StoreFragments, MaxParts)}

-----------------------------------------------------------------------------
(* Python dict operations *)

\* the value None, where a str is expected
None == "<None>"

\* d.get(k, default)
Get(d, k, default) == IF k \in DOMAIN d THEN d[k] ELSE default

\* bool(d.get(k)) for a key that holds a str
Truthy(d, k) == k \in DOMAIN d /\ d[k] # "" /\ d[k] # None

-----------------------------------------------------------------------------
(* AIAgent._fallback_query_generation *)

Intents == {"sales", "inventory", "customers", "products"}

\* the rules of the keyword classifier with rule (3) tested before rule (2)
FallbackCustomersFirst(q) ==
    LET question_lower == Lower(q) IN
    IF Contains(question_lower, "inventory") \/ Contains(question_lower, "stock")
    THEN IF Contains(question_lower, "out of stock") \/ Contains(question_lower, "low")
         THEN [intent |-> "inventory",
               query |-> "SHOW inventory_levels FROM products WHERE quantity < 20"]
         ELSE [intent |-> "inventory",
               query |-> "SHOW inventory_levels FROM products"]
    ELSE IF Contains(question_lower, "customer") \/ Contains(question_lower, "repeat")
    THEN [intent |-> "customers",
          query |-> "SHOW repeat_customers FROM orders SINCE -90d"]
    ELSE IF Contains(question_lower, "top") /\ Contains(question_lower, "product")
    THEN [intent |-> "products",
          query |-> "SHOW top_selling_products FROM orders SINCE -7d LIMIT 5"]
    ELSE [intent |-> "sales",
          query |-> "SHOW total_sales FROM orders SINCE -30d"]

_fallback_query_generation(q) ==
    LET question_lower == Lower(q) IN
    IF Contains(question_lower, "inventory") \/ Contains(question_lower, "stock")
    THEN IF Contains(question_lower, "out of stock") \/ Contains(question_lower, "low")
         THEN [intent |-> "inventory",
               query |-> "SHOW inventory_levels FROM products WHERE quantity < 20"]
         ELSE [intent |-> "inventory",
               query |-> "SHOW inventory_levels FROM products"]
    ELSE IF Contains(question_lower, "top") /\ Contains(question_lower, "product")
    THEN LET limit == IF Contains(q, "5") \/ Contains(question_lower, "five")
                      THEN 5 ELSE 5
         IN  [intent |-> "products",
              query |-> "SHOW top_selling_products FROM orders SINCE -7d LIMIT "
                        \o ToString(limit)]
    ELSE IF Contains(question_lower, "customer") \/ Contains(question_lower, "repeat")
    THEN [intent |-> "customers",
          query |-> "SHOW repeat_customers FROM orders SINCE -90d"]
    ELSE IF Contains(question_lower, "sales") \/ Contains(question_lower, "revenue")
    THEN [intent |-> "sales",
          query |-> "SHOW total_sales FROM orders SINCE -30d"]
    ELSE [intent |-> "sales",
          query |-> "SHOW total_sales FROM orders SINCE -30d"]

\* questions: up to MaxWords words separated by blanks
QuestionWords ==
    {"top", "Top", "product", "PRODUCTS", "stock", "inventory", "low",
     "out of stock", "customer", "repeat", "sales", "revenue", "5", "five",
     "what"}

Questions == {Join(ws, " ") : ws \in SeqsUpTo(QuestionWords, MaxWords)}

\* products: the limit read out of the query (_get_products_data)
QueryLimit(query) ==
    IF Contains(Upper(query), "LIMIT")
    THEN LET operand == Strip(SplitSecond(Upper(query), "LIMIT"))
         IN  IF IsInt(operand) THEN ToInt(operand) ELSE 5
    ELSE 5

-----------------------------------------------------------------------------
(* AIAgent._generate_shopifyql_query *)

\* A chat-completion call either raises (no key, no network, a reply that
\* is not a JSON object) or yields the parsed JSON object of the reply.
LLMFailure == [ok |-> FALSE, json |-> <<>>]
LLMReply(json) == [ok |-> TRUE, json |-> json]

ClassifierReplies ==
    {LLMFailure,
     LLMReply([error |-> "This question cannot be answered with Shopify data"]),
     LLMReply([intent |-> "sales", query |-> "SHOW sales FROM orders SINCE -30d UNTIL today",
               reasoning |-> "sales over a period"]),
     LLMReply([intent |-> "inventory", query |-> "SHOW inventory_levels FROM products",
               reasoning |-> "stock levels"]),
     LLMReply([intent |-> "customers", query |-> "SHOW customer_count FROM customers",
               reasoning |-> "customer base"]),
     LLMReply([intent |-> "products",
               query |-> "show top_selling_products from orders since -7d limit 2",
               reasoning |-> "best sellers"]),
     LLMReply([intent |-> "orders", query |-> "SHOW orders FROM orders",
               reasoning |-> "order list"]),
     LLMReply([query |-> "SHOW total_sales FROM orders SINCE -7d"])}

_generate_shopifyql_query(q, reply) ==
    IF reply.ok
    THEN IF Truthy(reply.json, "error")
         THEN [error |-> reply.json.error]
         ELSE [intent |-> Get(reply.json, "intent", "sales"),
               query |-> Get(reply.json, "query", ""),
               reasoning |-> Get(reply.json, "reasoning", "")]
    ELSE _fallback_query_generation(q)

-----------------------------------------------------------------------------
(* JSON data *)

JList(items) == [kind |-> "list", items |-> items, fields |-> <<>>]
JObject(fields) == [kind |-> "object", items |-> <<>>, fields |-> fields]
JNull == [kind |-> "null", items |-> <<>>, fields |-> <<>>]

\* not data
IsFalsy(d) ==
    \/ d.kind = "null"
    \/ d.kind = "list" /\ Len(d.items) = 0
    \/ d.kind = "object" /\ DOMAIN d.fields = {}

\* xs[:n] for n >= 0
Take(xs, n) == SubSeq(xs, 1, IF n < Len(xs) THEN n ELSE Len(xs))

-----------------------------------------------------------------------------
(* ShopifyClient._get_mock_data; amounts in cents, repeat_rate in tenths *)

MockInventory ==
    JList(<<[product_id |-> 1, product_name |-> "Product A", quantity |-> 15,
             location |-> "Main Warehouse"],
            [product_id |-> 2, product_name |-> "Product B", quantity |-> 5,
             location |-> "Main Warehouse"],
            [product_id |-> 3, product_name |-> "Product C", quantity |-> 45,
             location |-> "Main Warehouse"]>>)

MockProducts ==
    JList(<<[id |-> 1, title |-> "Product X", price |-> "29.99", sales_count |-> 150],
            [id |-> 2, title |-> "Product Y", price |-> "49.99", sales_count |-> 120],
            [id |-> 3, title |-> "Product Z", price |-> "19.99", sales_count |-> 100]>>)

MockSales ==
    JObject([total_sales |-> 1250050, order_count |-> 45,
             average_order_value |-> 27779, period |-> "last 30 days"])

MockCustomers ==
    JObject([customer_count |-> 120, repeat_customers |-> 35, repeat_rate |-> 292])

\* every query type yields the sales dataset
MockDataAlwaysSales(query_type, query) == [data |-> MockSales, success |-> TRUE]

_get_mock_data(query_type, query) ==
    IF query_type = "inventory" THEN [data |-> MockInventory, success |-> TRUE]
    ELSE IF query_type = "products" THEN [data |-> MockProducts, success |-> TRUE]
    ELSE IF query_type = "sales" THEN [data |-> MockSales, success |-> TRUE]
    ELSE IF query_type = "customers" THEN [data |-> MockCustomers, success |-> TRUE]
    ELSE [data |-> JObject(<<>>), success |-> TRUE]

-----------------------------------------------------------------------------
(* The GET sent to the Shopify REST API and what comes back *)

\* client.get raised (connection error, timeout)
ShopifyRaised == [raised |-> TRUE, status |-> 0, json_ok |-> FALSE, body |-> <<>>]

\* a response with a status code; json_ok: response.json() parses; body: the
\* parsed object
ShopifyResponse(status, json_ok, body) ==
    [raised |-> FALSE, status |-> status, json_ok |-> json_ok, body |-> body]

InventoryBodies ==
    {<<>>,
     [inventory_levels |-> <<>>],
     [inventory_levels |->
        <<[inventory_item_id |-> 1, location_id |-> 9, available |-> 3],
          [inventory_item_id |-> 2, location_id |-> 9, quantity |-> 25]>>]}

ProductBodies ==
    {<<>>,
     [products |-> <<>>],
     [products |-> <<[id |-> 11, title |-> "Mug", vendor |-> "Cafe"],
                     [id |-> 12, title |-> "Beans", vendor |-> "Cafe"],
                     [id |-> 13, title |-> "Filter", vendor |-> "Cafe"]>>]}

OrderBodies ==
    {<<>>,
     [orders |-> <<>>],
     [orders |-> <<[id |-> 21, total_price |-> "10.00"],
                   [id |-> 22, total_price |-> "5.5"],
                   [id |-> 23, name |-> "#1003"]>>],
     [orders |-> <<[id |-> 24, total_price |-> "n/a"]>>]}

CustomerBodies ==
    {<<>>,
     [customers |-> <<>>],
     [customers |-> <<[id |-> 31, email |-> "a@example.com"]>>]}

BodiesOf(query_type) ==
    IF query_type = "inventory" THEN InventoryBodies
    ELSE IF query_type = "products" THEN ProductBodies
    ELSE IF query_type = "sales" THEN OrderBodies
    ELSE CustomerBodies

ShopifyReplies(query_type) ==
    {ShopifyRaised, ShopifyResponse(200, FALSE, <<>>)}
        \cup {ShopifyResponse(s, TRUE, <<>>) : s \in {204, 401, 500}}
        \cup {ShopifyResponse(200, TRUE, b) : b \in BodiesOf(query_type)}

\* the try block reaches its return: no exception, status 200, JSON parsed
Usable(reply) == ~reply.raised /\ reply.status = 200 /\ reply.json_ok

\* whether float(s) succeeds, for decimal strings with at most two decimals
IsDecimal(s) ==
    IF Contains(s, ".")
    THEN LET int_part == SplitFirst(s, ".")
             frac_part == SubSeq(s, FindFirst(s, ".") + 1, Len(s))
         IN  IsInt(int_part) /\ IsInt(frac_part) /\ Len(frac_part) <= 2
    ELSE IsInt(s)

\* float(s) in cents
Cents(s) ==
    IF Contains(s, ".")
    THEN LET int_part == SplitFirst(s, ".")
             frac_part == SubSeq(s, FindFirst(s, ".") + 1, Len(s))
         IN  100 * ToInt(int_part)
             + (IF Len(frac_part) = 1 THEN 10 * ToInt(frac_part) ELSE ToInt(frac_part))
    ELSE 100 * ToInt(s)

\* sum(float(order.get("total_price", 0)) for order in orders), in cents
RECURSIVE SumTotalPrice(_)
SumTotalPrice(orders) ==
    IF Len(orders) = 0 THEN 0
    ELSE (IF "total_price" \in DOMAIN Head(orders)
          THEN Cents(Head(orders).total_price) ELSE 0)
         + SumTotalPrice(Tail(orders))

\* float() raises ValueError on one of the orders
BadTotalPrice(orders) ==
    \E i \in 1..Len(orders) :
        "total_price" \in DOMAIN orders[i] /\ ~IsDecimal(orders[i].total_price)

-----------------------------------------------------------------------------
(* ShopifyClient._get_*_data *)

_get_inventory_data(reply) ==
    IF Usable(reply)
    THEN [data |-> JList(Get(reply.body, "inventory_levels", <<>>)), success |-> TRUE]
    ELSE _get_mock_data("inventory", "")

_get_products_data(query, reply) ==
    LET limit == QueryLimit(query) IN
    IF Usable(reply)
    THEN [data |-> JList(Take(Get(reply.body, "products", <<>>), limit)),
          success |-> TRUE]
    ELSE _get_mock_data("products", query)

\* a failed request is reported to the caller instead of being swallowed
OrdersDataReportingFailure(query, reply) ==
    IF Usable(reply) /\ ~BadTotalPrice(Get(reply.body, "orders", <<>>))
    THEN LET orders == Get(reply.body, "orders", <<>>)
         IN  [data |-> JObject([total_sales |-> SumTotalPrice(orders),
                                order_count |-> Len(orders),
                                orders |-> Take(orders, 10)]),
              success |-> TRUE]
    ELSE [success |-> FALSE, error |-> "Shopify request failed"]

_get_orders_data(query, reply) ==
    IF Usable(reply) /\ ~BadTotalPrice(Get(reply.body, "orders", <<>>))
    THEN LET orders == Get(reply.body, "orders", <<>>)
         IN  [data |-> JObject([total_sales |-> SumTotalPrice(orders),
                                order_count |-> Len(orders),
                                orders |-> Take(orders, 10)]),
              success |-> TRUE]
    ELSE _get_mock_data("sales", query)

_get_customers_data(query, reply) ==
    IF Usable(reply)
    THEN LET customers == Get(reply.body, "customers", <<>>)
         IN  [data |-> JObject([customer_count |-> Len(customers),
                                customers |-> Take(customers, 10)]),
              success |-> TRUE]
    ELSE _get_mock_data("customers", query)

-----------------------------------------------------------------------------
(* ShopifyClient.execute_query *)

\* the name of the environment variable that holds the token of a shop
TokenVariable(normalized) ==
    "SHOPIFY_ACCESS_TOKEN_" \o Replace(normalized, ".", "_")

\* a token is assumed when the environment has none
AccessTokenWithDefault(e, sid) ==
    Get(e, TokenVariable(_normalize_shop(sid)), "demo-token")

\* os.getenv(f"SHOPIFY_ACCESS_TOKEN_{shop.replace('.', '_')}", "")
AccessToken(e, sid) == Get(e, TokenVariable(_normalize_shop(sid)), "")

\* whether execute_query sends a request to the Shopify REST API
SendsRequest(e, sid, query_type) ==
    AccessToken(e, sid) # "" /\ query_type \in Intents

\* reply: the outcome of the request, read only when one is sent
execute_query(e, sid, query, query_type, reply) ==
    IF AccessToken(e, sid) = "" THEN _get_mock_data(query_type, query)
    ELSE IF query_type = "inventory" THEN _get_inventory_data(reply)
    ELSE IF query_type = "products" THEN _get_products_data(query, reply)
    ELSE IF query_type = "sales" THEN _get_orders_data(query, reply)
    ELSE IF query_type = "customers" THEN _get_customers_data(query, reply)
    ELSE _get_mock_data(query_type, query)

-----------------------------------------------------------------------------
(* AIAgent._fallback_explanation and AIAgent._generate_explanation *)

\* f"{total:.2f}" for an amount in cents
FormatMoney(cents) ==
    ToString(cents \div 100) \o "."
        \o (IF cents % 100 < 10 THEN "0" ELSE "") \o ToString(cents % 100)

\* len([item for item in data if item.get("quantity", 0) < 20])
RECURSIVE LowStockCount(_)
LowStockCount(items) ==
    IF Len(items) = 0 THEN 0
    ELSE (IF Get(Head(items), "quantity", 0) < 20 THEN 1 ELSE 0)
         + LowStockCount(Tail(items))

NoDataAnswer ==
    "I couldn't retrieve the requested data. Please check your store connection and try again."

GenericAnswer(query_type) ==
    [answer |-> "Retrieved " \o query_type \o " data. Review the details for insights.",
     confidence |-> "medium"]

\* lines 235-264: the templates for data that is not empty.  A dict with
\* the key "raised" stands for an exception leaving the function: data.get
\* on a list raises AttributeError.
ExplanationTemplates(q, data, query_type) ==
    IF query_type = "inventory"
    THEN IF data.kind = "list" /\ Len(data.items) > 0
         THEN [answer |-> "Found " \o ToString(LowStockCount(data.items))
                          \o " products with low inventory (less than 20 units). Consider reordering soon.",
               confidence |-> "medium"]
         ELSE [answer |-> "Inventory data retrieved. Review the details to make reordering decisions.",
               confidence |-> "medium"]
    ELSE IF query_type = "products" /\ data.kind = "list"
    THEN [answer |-> "Found " \o ToString(Len(data.items))
                     \o " top-selling products. Review the list to identify your best performers.",
          confidence |-> "medium"]
    ELSE IF query_type = "sales"
    THEN IF data.kind = "object"
         THEN LET total == Get(data.fields, "total_sales", Get(data.fields, "sales", 0))
              IN  [answer |-> "Total sales: $" \o FormatMoney(total)
                              \o " for the requested period.",
                   confidence |-> "medium"]
         ELSE [raised |-> "'list' object has no attribute 'get'"]
    ELSE GenericAnswer(query_type)

\* the test for missing data written as "data is None"
FallbackExplanationNoneOnly(q, data, query_type) ==
    IF data.kind = "null"
    THEN [answer |-> NoDataAnswer, confidence |-> "low"]
    ELSE ExplanationTemplates(q, data, query_type)

_fallback_explanation(q, data, query_type) ==
    IF IsFalsy(data)
    THEN [answer |-> NoDataAnswer, confidence |-> "low"]
    ELSE ExplanationTemplates(q, data, query_type)

ExplainerReplies ==
    {LLMFailure,
     LLMReply([answer |-> "Sales are steady; keep the current promotions.",
               confidence |-> "high"]),
     LLMReply([answer |-> "Stock is running low on two items."]),
     LLMReply(<<>>)}

_generate_explanation(q, data, query_type, reply) ==
    IF reply.ok
    THEN [answer |-> Get(reply.json, "answer", "Unable to generate explanation"),
          confidence |-> Get(reply.json, "confidence", "medium")]
    ELSE _fallback_explanation(q, data, query_type)

-----------------------------------------------------------------------------
(* AIAgent.process_question, between its awaits *)

\* classification that reports an error is ignored and the pipeline goes on
ClassificationErrorIgnored(qr) == FALSE

\* if query_result.get("error"): return query_result
ClassificationError(qr) == Truthy(qr, "error")

\* if data_result.get("error"): return {"error": ..., "query_used": ...}
FetchError(dr) == Truthy(dr, "error")

\* what process_question returns once the explanation is there
PipelineResult(qr, dr, ex) ==
    IF "raised" \in DOMAIN ex
    THEN [error |-> "Agent processing error: " \o ex.raised]
    ELSE [answer |-> Get(ex, "answer", "Unable to generate answer"),
          confidence |-> Get(ex, "confidence", "medium"),
          query_used |-> Get(qr, "query", None),
          data |-> Get(dr, "data", JNull)]

-----------------------------------------------------------------------------
(* main.py: QuestionResponse and analyze_question *)

\* QuestionResponse.data is Optional[Dict[str, Any]]: null and objects
\* validate; a list does not, except that pydantic 1 turns a list into a
\* dict via dict(v), which succeeds for the empty list (and for lists of
\* two-element items, which the data of this model does not contain).
DataValidates(d, version) ==
    \/ d.kind \in {"null", "object"}
    \/ d.kind = "list" /\ version = 1 /\ Len(d.items) = 0

\* the value the validated field holds
ValidatedData(d) == IF d.kind = "list" THEN JObject(<<>>) ELSE d

\* str(e) for HTTPException(status_code=400, detail=detail): starlette
\* formats "400: detail"; releases without __str__ give the empty string
HTTPExceptionText(detail) == {"400: " \o detail, ""}

ValidationErrorText == "1 validation error for QuestionResponse"

-----------------------------------------------------------------------------
(* Values shared by the specifications *)

NoDict == <<>>

Idle ==
    /\ classifier_reply = NoDict
    /\ query_result = NoDict
    /\ shopify_reply = NoDict
    /\ data_result = NoDict
    /\ explainer_reply = NoDict
    /\ explanation = NoDict
    /\ result = NoDict
    /\ response = NoDict
    /\ calls = <<>>
    /\ shop = ""
    /\ shop_again = ""

-----------------------------------------------------------------------------
(* Specification of one request to POST /api/v1/analyze *)

E2EQuestion == "what are my top 5 selling products"

PipelineQuestions ==
    {E2EQuestion, "which items are low on stock", "How many repeat customers",
     "revenue last month", "hello"}

PipelineStoreIds ==
    {"my-shop", "https://my-shop.myshopify.com", "other-shop.example.com"}

\* the environment: no token at all, a token for my-shop, an empty value
Environments ==
    {NoDict,
     "SHOPIFY_ACCESS_TOKEN_my-shop_myshopify_com" :> "shpat_1",
     "SHOPIFY_ACCESS_TOKEN_my-shop_myshopify_com" :> ""}

Init ==
    /\ Idle
    /\ store_id \in PipelineStoreIds
    /\ question \in PipelineQuestions
    /\ env \in Environments
    /\ pydantic \in {1, 2}
    /\ fx_intent = ""
    /\ fx_data = NoDict
    /\ pc = "received"

\* process_question up to the return of _generate_shopifyql_query
Classify ==
    /\ pc = "received"
    /\ \E reply \in ClassifierReplies :
        /\ classifier_reply' = reply
        /\ query_result' = _generate_shopifyql_query(question, reply)
    /\ calls' = Append(calls, "llm_classifier")
    /\ IF ClassificationError(query_result')
       THEN result' = query_result' /\ pc' = "returned"
       ELSE result' = result /\ pc' = "classified"
    /\ UNCHANGED <<store_id, question, env, pydantic, shopify_reply, data_result,
                   explainer_reply, explanation, response, shop, shop_again,
                   fx_intent, fx_data>>

\* process_question from there up to the return of execute_query
Fetch ==
    /\ pc = "classified"
    /\ LET shopifyql_query == Get(query_result, "query", None)
           intent == Get(query_result, "intent", None)
       IN  /\ IF SendsRequest(env, store_id, intent)
              THEN \E reply \in ShopifyReplies(intent) :
                      /\ shopify_reply' = reply
                      /\ calls' = Append(calls, "shopify")
                      /\ data_result' =
                            execute_query(env, store_id, shopifyql_query, intent, reply)
              ELSE /\ shopify_reply' = shopify_reply
                   /\ calls' = calls
                   /\ data_result' =
                         execute_query(env, store_id, shopifyql_query, intent,
                                       ShopifyRaised)
           /\ IF FetchError(data_result')
              THEN /\ result' = [error |-> "Failed to execute query: "
                                            \o data_result'.error,
                                 query_used |-> shopifyql_query]
                   /\ pc' = "returned"
              ELSE result' = result /\ pc' = "fetched"
    /\ shop' = _normalize_shop(store_id)
    /\ UNCHANGED <<store_id, question, env, pydantic, classifier_reply,
                   query_result, explainer_reply, explanation, response,
                   shop_again, fx_intent, fx_data>>

\* process_question from there to its return
Explain ==
    /\ pc = "fetched"
    /\ \E reply \in ExplainerReplies :
        /\ explainer_reply' = reply
        /\ explanation' =
              _generate_explanation(question, Get(data_result, "data", JObject(<<>>)),
                                    Get(query_result, "intent", None), reply)
    /\ calls' = Append(calls, "llm_explainer")
    /\ result' = PipelineResult(query_result, data_result, explanation')
    /\ pc' = "returned"
    /\ UNCHANGED <<store_id, question, env, pydantic, classifier_reply,
                   query_result, shopify_reply, data_result, response, shop,
                   shop_again, fx_intent, fx_data>>

\* analyze_question after process_question has returned.  The
\* HTTPException(400) is raised inside the try block whose handler catches
\* Exception, and so is the validation error of QuestionResponse: both leave
\* as HTTPException(500).
Respond ==
    /\ pc = "returned"
    /\ IF Truthy(result, "error")
       THEN \E text \in HTTPExceptionText(result.error) :
               response' = [status |-> 500,
                            detail |-> "Internal server error: " \o text]
       ELSE IF DataValidates(Get(result, "data", JNull), pydantic)
       THEN response' =
               [status |-> 200,
                body |-> [answer |-> Get(result, "answer", "Unable to generate answer"),
                          confidence |-> Get(result, "confidence", "low"),
                          query_used |-> Get(result, "query_used", None),
                          data |-> ValidatedData(Get(result, "data", JNull))]]
       ELSE response' = [status |-> 500,
                         detail |-> "Internal server error: " \o ValidationErrorText]
    /\ pc' = "done"
    /\ UNCHANGED <<store_id, question, env, pydantic, classifier_reply,
                   query_result, shopify_reply, data_result, explainer_reply,
                   explanation, result, calls, shop, shop_again, fx_intent, fx_data>>

Next == Classify \/ Fetch \/ Explain \/ Respond

Spec == Init /\ [][Next]_vars

-----------------------------------------------------------------------------
(* Properties of one request *)

\* the token the environment holds for the normalized store, "" when none
ConfiguredToken ==
    LET name == "SHOPIFY_ACCESS_TOKEN_" \o Replace(_normalize_shop(store_id), ".", "_")
    IN  IF name \in DOMAIN env THEN env[name] ELSE ""

\* execute_query has returned
Fetched == data_result # NoDict

\* the mock dataset the claims name for an intent
ExpectedMock(intent) ==
    CASE intent = "inventory" -> MockInventory
      [] intent = "products"  -> MockProducts
      [] intent = "sales"     -> MockSales
      [] intent = "customers" -> MockCustomers
      [] OTHER                -> JObject(<<>>)

\* the number of entries of calls that equal name
Occurrences(name) == Cardinality({i \in 1..Len(calls) : calls[i] = name})

\* C1: when the classifier's LLM reply carries an error field, the endpoint
\* answers with status 400 and that error as detail.
C1_UnanswerableIsClientError ==
    (pc = "done" /\ classifier_reply.ok /\ Truthy(classifier_reply.json, "error"))
        => /\ response.status = 400
           /\ response.detail = classifier_reply.json.error

\* the request failed: an exception of the call, a non-2xx status, or an
\* exception while the response is read
RequestFailed(reply) ==
    \/ reply.raised
    \/ reply.status \notin 200..299
    \/ reply.status = 200 /\ ~reply.json_ok
    \/ reply.status = 200 /\ reply.json_ok
         /\ BadTotalPrice(Get(reply.body, "orders", <<>>))

\* C2: with a token configured and one of the four intents, execute_query
\* makes at most one live request, and when that request fails its result is
\* the mock dataset of the intent with success=true and no error field; the
\* pipeline never returns a fetch error.
C2_FetchFailureFallsBackToMock ==
    (/\ Fetched
     /\ ConfiguredToken # ""
     /\ query_result.intent \in Intents)
        => /\ Occurrences("shopify") <= 1
           /\ shopify_reply # NoDict
           /\ RequestFailed(shopify_reply)
                => /\ data_result =
                        [data |-> ExpectedMock(query_result.intent), success |-> TRUE]
                   /\ "error" \notin DOMAIN data_result
           /\ ~(Truthy(result, "error")
                /\ StartsWith(result.error, "Failed to execute query"))

\* a live request for sales data was answered with status 500, and the fetch
\* returned the mock sales dataset
C2_Witness ==
    /\ pc = "fetched"
    /\ ConfiguredToken # ""
    /\ query_result.intent = "sales"
    /\ calls = <<"llm_classifier", "shopify">>
    /\ shopify_reply = ShopifyResponse(500, TRUE, <<>>)
    /\ data_result.data = MockSales

\* C3: with no token configured for the normalized store, execute_query
\* returns success=true with the mock dataset of the intent and no request
\* is sent to the Shopify REST API.
C3_NoTokenMeansMockWithoutRequest ==
    (Fetched /\ ConfiguredToken = "")
        => /\ data_result =
                [data |-> ExpectedMock(query_result.intent), success |-> TRUE]
           /\ Occurrences("shopify") = 0
           /\ shopify_reply = NoDict

\* a store given as a URL, without token, was served the mock inventory
C3_Witness ==
    /\ Fetched
    /\ ConfiguredToken = ""
    /\ store_id = "https://my-shop.myshopify.com"
    /\ query_result.intent = "inventory"
    /\ data_result.data = MockInventory
    /\ calls = <<"llm_classifier">>

\* C4: the outbound calls of a request are made in the order classifier,
\* Shopify REST API, explainer, each at most once; the fetch happens only
\* once classification has produced an intent and a query, the explanation
\* only once the fetch has returned, and after a classification error
\* neither the fetch nor the explainer call happens.
C4_CallsSequentialOnce ==
    /\ calls \in {<<>>,
                  <<"llm_classifier">>,
                  <<"llm_classifier", "shopify">>,
                  <<"llm_classifier", "llm_explainer">>,
                  <<"llm_classifier", "shopify", "llm_explainer">>}
    /\ Fetched => {"intent", "query"} \subseteq DOMAIN query_result
    /\ Occurrences("shopify") > 0 => {"intent", "query"} \subseteq DOMAIN query_result
    /\ Occurrences("llm_explainer") > 0 => "data" \in DOMAIN data_result
    /\ explainer_reply # NoDict => Occurrences("llm_explainer") = 1
    /\ Truthy(query_result, "error")
         => /\ calls = <<"llm_classifier">>
            /\ ~Fetched
            /\ explainer_reply = NoDict

\* a request that made all three calls has been answered
C4_Witness ==
    /\ pc = "done"
    /\ calls = <<"llm_classifier", "shopify", "llm_explainer">>

\* a request whose classification reported an error has been answered
C4_WitnessError ==
    /\ pc = "done"
    /\ Truthy(query_result, "error")
    /\ calls = <<"llm_classifier">>

\* C7: when the pipeline completes without an error, the endpoint answers
\* with status 200 and a body that carries the pipeline's answer, confidence,
\* query_used and data, for each intent and each shape of data.
C7_SuccessCarriesPipelineResult ==
    (pc = "done" /\ ~Truthy(result, "error"))
        => /\ response.status = 200
           /\ response.body = [answer |-> result.answer,
                               confidence |-> result.confidence,
                               query_used |-> result.query_used,
                               data |-> result.data]

\* the end-to-end scenario: store "my-shop", the top-5 question, no token,
\* both chat-completion calls failing, the pipeline has returned
E2EScenario ==
    /\ store_id = "my-shop"
    /\ question = E2EQuestion
    /\ ConfiguredToken = ""
    /\ pc \in {"returned", "done"}
    /\ ~classifier_reply.ok
    /\ ~explainer_reply.ok

\* C8: in the end-to-end scenario the classifier fallback selects
\* intent=products with a query ending in LIMIT 5, the fetcher returns the
\* 3-record mock products dataset, and the explainer fallback answers
\* "Found 3 top-selling products..." with confidence medium; query_used is
\* the classifier's query.
C8_EndToEndTopProducts ==
    E2EScenario
        => /\ query_result.intent = "products"
           /\ EndsWith(query_result.query, "LIMIT 5")
           /\ data_result.success
           /\ data_result.data = MockProducts
           /\ Len(data_result.data.items) = 3
           /\ StartsWith(explanation.answer, "Found 3 top-selling products")
           /\ explanation.confidence = "medium"
           /\ result.answer = explanation.answer
           /\ result.confidence = "medium"
           /\ result.query_used = query_result.query
           /\ result.data = MockProducts

\* the end-to-end scenario has run to the end of the pipeline
C8_Witness ==
    /\ E2EScenario
    /\ calls = <<"llm_classifier", "llm_explainer">>
    /\ result.query_used = "SHOW top_selling_products FROM orders SINCE -7d LIMIT 5"

\* C9: the intent handed to the data fetcher and to the explanation
\* generator is one of sales, inventory, customers, products.
C9_IntentIsEnumerated ==
    Fetched => Get(query_result, "intent", None) \in Intents

-----------------------------------------------------------------------------
(* Specification of store-identifier normalization on its own *)

InitNormalize ==
    /\ Idle
    /\ env = NoDict
    /\ pydantic = 2
    /\ fx_intent = ""
    /\ fx_data = NoDict
    /\ store_id \in StoreIds
    /\ question = ""
    /\ pc = "start"

NormalizeShop ==
    /\ pc = "start"
    /\ shop' = _normalize_shop(store_id)
    /\ pc' = "normalized"
    /\ UNCHANGED <<store_id, question, env, pydantic, classifier_reply,
                   query_result, shopify_reply, data_result, explainer_reply,
                   explanation, result, response, calls, shop_again,
                   fx_intent, fx_data>>

NormalizeAgain ==
    /\ pc = "normalized"
    /\ shop_again' = _normalize_shop(shop)
    /\ pc' = "renormalized"
    /\ UNCHANGED <<store_id, question, env, pydantic, classifier_reply,
                   query_result, shopify_reply, data_result, explainer_reply,
                   explanation, result, response, calls, shop,
                   fx_intent, fx_data>>

NextNormalize == NormalizeShop \/ NormalizeAgain

SpecNormalize == InitNormalize /\ [][NextNormalize]_vars

\* C6: normalizing a normalized store identifier returns it unchanged, and
\* the normalized identifier ends in ".myshopify.com" and carries no
\* "http://" or "https://" scheme prefix.
C6_NormalizeIdempotentCanonical ==
    pc = "renormalized" =>
        /\ shop_again = shop
        /\ EndsWith(shop, Suffix)
        /\ ~StartsWith(shop, "http://")
        /\ ~StartsWith(shop, "https://")

-----------------------------------------------------------------------------
(* Specification of the keyword classifier on its own *)

InitClassify ==
    /\ Idle
    /\ env = NoDict
    /\ pydantic = 2
    /\ fx_intent = ""
    /\ fx_data = NoDict
    /\ store_id = ""
    /\ question \in Questions
    /\ pc = "start"

FallbackClassify ==
    /\ pc = "start"
    /\ query_result' = _fallback_query_generation(question)
    /\ pc' = "classified"
    /\ UNCHANGED <<store_id, question, env, pydantic, classifier_reply,
                   shopify_reply, data_result, explainer_reply, explanation,
                   result, response, calls, shop, shop_again, fx_intent, fx_data>>

NextClassify == FallbackClassify

SpecClassify == InitClassify /\ [][NextClassify]_vars

\* the query carries a LIMIT clause whose operand is n
HasLimitClause(query, n) ==
    /\ Contains(query, "LIMIT")
    /\ IsInt(Strip(SplitSecond(query, "LIMIT")))
    /\ ToInt(Strip(SplitSecond(query, "LIMIT"))) = n

\* C5 as stated: every question whose text contains "top" and "product" is
\* classified by the fallback as intent=products with a LIMIT 5 query.
C5_TopProductAlwaysProducts ==
    (pc = "classified" /\ Contains(question, "top") /\ Contains(question, "product"))
        => /\ query_result.intent = "products"
           /\ HasLimitClause(query_result.query, 5)

\* C5 amended: every question whose text contains "top" and "product" and
\* whose lower-cased text contains neither "inventory" nor "stock" is
\* classified by the fallback as intent=products with a LIMIT 5 query.
C5_TopProductWithoutInventoryWords ==
    (/\ pc = "classified"
     /\ Contains(question, "top") /\ Contains(question, "product")
     /\ ~Contains(Lower(question), "inventory")
     /\ ~Contains(Lower(question), "stock"))
        => /\ query_result.intent = "products"
           /\ HasLimitClause(query_result.query, 5)

\* a top/product question that also names customers has been classified
C5_Witness ==
    /\ pc = "classified"
    /\ Contains(question, "top") /\ Contains(question, "product")
    /\ Contains(question, "customer")
    /\ ~Contains(Lower(question), "stock")
    /\ query_result.intent = "products"

\* the conditions of rules (1) to (4) on the lower-cased question
Rule1(lowered) == Contains(lowered, "inventory") \/ Contains(lowered, "stock")
Rule1Low(lowered) == Contains(lowered, "out of stock") \/ Contains(lowered, "low")
Rule2(lowered) == Contains(lowered, "top") /\ Contains(lowered, "product")
Rule3(lowered) == Contains(lowered, "customer") \/ Contains(lowered, "repeat")
Rule4(lowered) == Contains(lowered, "sales") \/ Contains(lowered, "revenue")

\* C11: the fallback classifier always returns an intent and a query, decided
\* by the first matching rule over the lower-cased question: (1) "inventory"
\* or "stock" gives inventory, with the quantity < 20 query when the text
\* also contains "out of stock" or "low"; (2) "top" and "product" gives
\* products; (3) "customer" or "repeat" gives customers; (4) "sales" or
\* "revenue" gives sales; (5) otherwise sales with the 30-day total-sales
\* query.  Every question containing "inventory" and "low" yields
\* intent=inventory with the quantity-under-20 query.
C11_FirstMatchingRuleDecides ==
    pc = "classified" =>
        LET lowered == Lower(question) IN
        /\ DOMAIN query_result = {"intent", "query"}
        /\ query_result.intent \in Intents
        /\ Rule1(lowered) => query_result.intent = "inventory"
        /\ Rule1(lowered)
             => (Rule1Low(lowered) <=>
                    query_result.query =
                        "SHOW inventory_levels FROM products WHERE quantity < 20")
        /\ (~Rule1(lowered) /\ Rule2(lowered))
             => query_result.intent = "products"
        /\ (~Rule1(lowered) /\ ~Rule2(lowered) /\ Rule3(lowered))
             => query_result.intent = "customers"
        /\ (~Rule1(lowered) /\ ~Rule2(lowered) /\ ~Rule3(lowered) /\ Rule4(lowered))
             => query_result.intent = "sales"
        /\ (~Rule1(lowered) /\ ~Rule2(lowered) /\ ~Rule3(lowered) /\ ~Rule4(lowered))
             => query_result = [intent |-> "sales",
                                query |-> "SHOW total_sales FROM orders SINCE -30d"]
        /\ (Contains(question, "inventory") /\ Contains(question, "low"))
             => /\ query_result.intent = "inventory"
                /\ Contains(query_result.query, "quantity < 20")

\* a question that meets rules (2), (3) and (4) at once, and neither
\* "inventory" nor "stock", has been classified by rule (2)
C11_Witness ==
    /\ pc = "classified"
    /\ ~Rule1(Lower(question))
    /\ Rule2(Lower(question))
    /\ Rule3(Lower(question)) \/ Rule4(Lower(question))
    /\ Contains(question, "PRODUCTS")
    /\ query_result.intent = "products"

\* a question with "inventory" and "low" has got the quantity-under-20 query
C11_WitnessLowInventory ==
    /\ pc = "classified"
    /\ Contains(question, "inventory") /\ Contains(question, "low")
    /\ Contains(question, "top")
    /\ query_result.query = "SHOW inventory_levels FROM products WHERE quantity < 20"

-----------------------------------------------------------------------------
(* Specification of the explanation fallback on its own *)

ExplainRecords ==
    {[product_id |-> 1, quantity |-> 5],
     [product_id |-> 2, quantity |-> 45],
     [id |-> 3, title |-> "Mug"]}

ExplainData ==
    {JNull, JObject(<<>>), MockSales, MockCustomers,
     JObject([sales |-> 990]), JObject([order_count |-> 0])}
        \cup {JList(items) : items \in SeqsUpTo(ExplainRecords, MaxRecords)}

\* intent=sales comes with an object: _get_orders_data and the mock sales
\* dataset are objects, and so is the mock data of an unknown intent
ExplainInputs ==
    {in \in (Intents \cup {"orders"}) \X ExplainData :
        in[1] = "sales" => (in[2].kind # "list" \/ Len(in[2].items) = 0)}

InitExplain ==
    /\ Idle
    /\ env = NoDict
    /\ pydantic = 2
    /\ store_id = ""
    /\ question = ""
    /\ \E in \in ExplainInputs : fx_intent = in[1] /\ fx_data = in[2]
    /\ pc = "chosen"

FallbackExplain ==
    /\ pc = "chosen"
    /\ explanation' = _fallback_explanation(question, fx_data, fx_intent)
    /\ pc' = "explained"
    /\ UNCHANGED <<store_id, question, env, pydantic, classifier_reply,
                   query_result, shopify_reply, data_result, explainer_reply,
                   result, response, calls, shop, shop_again, fx_intent, fx_data>>

NextExplain == FallbackExplain

SpecExplain == InitExplain /\ [][NextExplain]_vars

\* an empty object, an empty sequence or no value
EmptyData(d) == d \in {JObject(<<>>), JList(<<>>), JNull}

=============================================================================
